---- MODULE Spec2Model ----
(***************************************************************************)
(* Model of pkg/store/sqlite.go (SQLiteStore): the resources table, the    *)
(* store lock mu, the watch lock watchMu, the per-kind watcher channels,   *)
(* and the operations Put, Get, Delete, UpdateStatus, Watch and emit, each *)
(* split into the steps at which another goroutine can interleave; the     *)
(* executions table with its create/get/update/list and checkpoint         *)
(* operations; and the metrics registry with its lock.                     *)
(***************************************************************************)
EXTENDS Integers, Sequences, FiniteSets, TLC

\* ---------------------------------------------------------------- bounds
\* Spec: writes (time.Now() readings) and Watch registrations allowed.
MaxClock == 2
StoreWatchers == 1
\* SpecWatch: writes and Watch registrations allowed.
MaxEvents == 3
MaxWatchers == 1
\* SpecKinds: writes and Watch registrations allowed.
KindEvents == 2
KindWatchers == 2
\* SpecFull: writes beyond the channel capacity, and Watch registrations.
Overflow == 1
FullWatchers == 2
\* SpecStall: writes beyond the channel capacity, and channels that are never read.
StallOverflow == 1
StallWatchers == 1
\* SpecList: writes allowed.
ListWrites == 3
\* SpecRace: writes allowed.
RaceWrites == 4
\* SpecLedger: writes to the executions table allowed.
LedgerWrites == 4
\* SpecListExec: writes to the executions table allowed.
ListExecWrites == 3
\* SpecMutex: time stamps read, log rows appended and channels registered.
MutexWrites == 2
MutexLogs == 1
MutexWatchers == 1

\* ------------------------------------------------------ program constants
\* make(chan ResourceEvent, 100)
ChanCap == 100

\* ----------------------------------------------------------------- inputs
Procs == {"g1", "g2"}
Kinds == {"Agent", "Pipeline"}
Namespaces == {"default"}
Names == {"a"}
Keys == Kinds \X Namespaces \X Names
Specs == {"s1"}

\* Metadata.UID values: the empty string, a caller-supplied one, a generated one.
NoUID == [src |-> "empty", n |-> 0]
CallerUID == [src |-> "caller", n |-> 1]
\* uuid.New().String(): the n-th generated value, distinct from all others.
NewUUID(n) == [src |-> "uuid", n |-> n]

EventCreated == "CREATED"
EventUpdated == "UPDATED"
EventDeleted == "DELETED"

\* models.ResourceStatus as a caller supplies it (LastUpdated at its zero value).
Status(state, health) == [state |-> state, health |-> health]
StatusInputs == {Status("Ready", "Healthy")}

\* models.GenericResource
Resource(kind, ns, name, uid, spec, st) ==
  [kind |-> kind, namespace |-> ns, name |-> name, uid |-> uid,
   createdAt |-> 0, updatedAt |-> 0, spec |-> spec,
   state |-> st.state, health |-> st.health, lastUpdated |-> 0]

NoRes == Resource("", "", "", NoUID, "", Status("", ""))
NoRow == [present |-> FALSE]
NoEvent == [type |-> "", resource |-> NoRes]

KeyOf(res) == <<res.kind, res.namespace, res.name>>

\* json.Marshal(resource): the document's fields in declaration order.
Marshal(res) ==
  << <<"kind", res.kind>>,
     <<"metadata", <<res.namespace, res.name, res.uid, res.createdAt, res.updatedAt>> >>,
     <<"spec", res.spec>>,
     <<"status", <<res.state, res.health, res.lastUpdated>> >> >>

\* json.Unmarshal([]byte(data), &res)
Unmarshal(data) ==
  [kind |-> data[1][2],
   namespace |-> data[2][2][1], name |-> data[2][2][2], uid |-> data[2][2][3],
   createdAt |-> data[2][2][4], updatedAt |-> data[2][2][5],
   spec |-> data[3][2],
   state |-> data[4][2][1], health |-> data[4][2][2], lastUpdated |-> data[4][2][3]]

\* A Go []byte: nil, or a slice (possibly of length 0) with its bytes.
NilBytes == [nil |-> TRUE, b |-> <<>>]
Bytes(b) == [nil |-> FALSE, b |-> b]

\* Execution ids: two that CreateExecution is called with, one never created,
\* and the one uuid.New() generates for a record that comes without an id.
GeneratedID == "uuid"
ExecIDs == {"e1", "e2", "e9", GeneratedID}
ExecNamespaces == {"default", "other"}
ExecStates == {"Pending", "Retrying"}

\* models.ExecutionRecord: the fields the store reads or writes, and the ones
\* the scenarios set.
Execution(id, ns, state, retryCount, checkpoint) ==
  [id |-> id, namespace |-> ns, agentName |-> "summarizer", state |-> state,
   currentStep |-> retryCount, retryCount |-> retryCount, checkpoint |-> checkpoint,
   createdAt |-> 0, updatedAt |-> 0]

NoExecRec == Execution("", "", "", 0, NilBytes)

\* models.ExecutionLog. The entries used differ in their timestamps.
ExecutionLog(timestamp, level, message, step) ==
  [timestamp |-> timestamp, level |-> level, message |-> message, step |-> step]
NoLog == ExecutionLog(0, "", "", 0)
LogInputs == {ExecutionLog(2, "info", "step done", 1), ExecutionLog(1, "info", "started", 0)}
NoExec == [present |-> FALSE]

\* A value of the checkpoint BLOB column: NULL or a blob (possibly of length 0).
Null == [null |-> TRUE, blob |-> <<>>]
\* Binding a []byte argument: a nil slice binds NULL, any other a blob.
BindBytes(v) == IF v.nil THEN Null ELSE [null |-> FALSE, blob |-> v.b]
\* Scan(&data) into a []byte: NULL leaves it nil, a blob gives its bytes.
ScanBytes(col) == IF col.null THEN NilBytes ELSE Bytes(col.blob)

\* json.Marshal(exec): checkpoint is omitempty, left out when of length 0.
MarshalExec(e) ==
  IF Len(e.checkpoint.b) = 0
    THEN [id |-> e.id, agentName |-> e.agentName, namespace |-> e.namespace,
          state |-> e.state, currentStep |-> e.currentStep,
          retryCount |-> e.retryCount,
          createdAt |-> e.createdAt, updatedAt |-> e.updatedAt]
    ELSE [id |-> e.id, agentName |-> e.agentName, namespace |-> e.namespace,
          state |-> e.state, currentStep |-> e.currentStep,
          retryCount |-> e.retryCount, checkpoint |-> e.checkpoint.b,
          createdAt |-> e.createdAt, updatedAt |-> e.updatedAt]

\* json.Unmarshal([]byte(data), &exec): a field left out keeps its zero value.
UnmarshalExec(d) ==
  [id |-> d.id, namespace |-> d.namespace, agentName |-> d.agentName,
   state |-> d.state, currentStep |-> d.currentStep, retryCount |-> d.retryCount,
   checkpoint |-> IF "checkpoint" \in DOMAIN d THEN Bytes(d.checkpoint) ELSE NilBytes,
   createdAt |-> d.createdAt, updatedAt |-> d.updatedAt]

\* --------------------------------------------------------------- state
VARIABLES
  rows,        \* resources table: key -> row (uid, data, created_at, updated_at) or NoRow
  watchers,    \* s.watchers: kind -> sequence of channels (each its buffered events)
  mu,          \* s.mu: [writer, readers]
  watchMu,     \* s.watchMu: [writer, readers]
  pc,          \* per goroutine: where it stands in its current call
  local,       \* per goroutine: the call's arguments, local variables and result
  clock,       \* the last time.Now() reading
  uuids,       \* how many uuids uuid.New() has produced
  committed,   \* history: per kind, the writes the database executed, in order, each
               \* with the data column it wrote (Put) or removed (Delete)
  published,   \* history: per kind, the events handed to emit, in order
  received,    \* history: per kind and watcher, the events taken off its channel
  regAt,       \* history: per kind and watcher, Len(published), Len(committed) at Watch
  table,       \* resources table as SQLite holds it: the rows in storage order
  execs,       \* executions table: id -> row (namespace, state, data, checkpoint,
               \* created_at, updated_at) or NoExec
  created,     \* history: the executions CreateExecution inserted, in order, each
               \* with the namespace it was created in
  logs,        \* execution_logs table: the rows in insertion order
  saved,       \* history: id -> the bytes of the last SaveCheckpoint of the id that
               \* returned success, and whether the id had a row then
  regMu,       \* MetricsRegistry.mu: [writer, readers]
  counters,    \* MetricsRegistry.counters: the names registered
  gauges,      \* MetricsRegistry.gauges: the names registered
  histograms,  \* MetricsRegistry.histograms: the names registered
  crashed,     \* the Go runtime has stopped the process with a fatal error
  deletedSince \* history: key -> "no", or since a Delete of it returned success no Put or
               \* UpdateStatus of it was called: "quiet" if none was in flight at that
               \* return, "inflight" if only UpdateStatus calls were

vars == <<rows, watchers, mu, watchMu, pc, local, clock, uuids,
          committed, published, received, regAt, table, execs, created, saved, logs,
          regMu, counters, gauges, histograms, crashed, deletedSince>>

store == <<rows, clock, uuids, committed, table>>
ledger == <<execs, created, saved, logs>>
registry == <<regMu, counters, gauges, histograms, crashed>>
bus == <<watchers, published, received, regAt>>

NoLocal ==
  [op |-> "", key |-> <<"", "", "">>, res |-> NoRes, evt |-> NoEvent, err |-> "",
   list |-> <<>>, id |-> "", limit |-> 0, exec |-> NoExecRec, blob |-> NilBytes,
   entry |-> NoLog, name |-> "", snap |-> {}]

FreeLock == [writer |-> "", readers |-> {}]

Init ==
  /\ rows = [k \in Keys |-> NoRow]
  /\ watchers = [k \in Kinds |-> <<>>]
  /\ mu = FreeLock
  /\ watchMu = FreeLock
  /\ pc = [p \in Procs |-> "idle"]
  /\ local = [p \in Procs |-> NoLocal]
  /\ clock = 0
  /\ uuids = 0
  /\ committed = [k \in Kinds |-> <<>>]
  /\ published = [k \in Kinds |-> <<>>]
  /\ received = [k \in Kinds |-> <<>>]
  /\ regAt = [k \in Kinds |-> <<>>]
  /\ table = <<>>
  /\ execs = [id \in ExecIDs |-> NoExec]
  /\ created = <<>>
  /\ logs = <<>>
  /\ saved = [id \in ExecIDs |-> [some |-> FALSE, b |-> NilBytes, hadRow |-> FALSE]]
  /\ regMu = FreeLock
  /\ counters = {}
  /\ gauges = {}
  /\ histograms = {}
  /\ crashed = FALSE
  /\ deletedSince = [k \in Keys |-> "no"]

\* ------------------------------------------------------------ sync.RWMutex
CanLockAmongReaders(m) == m.writer = ""
CanLock(m) == m.writer = "" /\ m.readers = {}
CanRLock(m) == m.writer = ""
Lock(m, p) == [m EXCEPT !.writer = p]
Unlock(m, p) == [m EXCEPT !.writer = ""]
RLock(m, p) == [m EXCEPT !.readers = @ \cup {p}]
RUnlock(m, p) == [m EXCEPT !.readers = @ \ {p}]

\* ------------------------------------------------------ database access
\* SELECT data FROM resources WHERE kind = ? AND namespace = ? AND name = ?
\* followed by json.Unmarshal: shared by Get and getUnlocked.
getUnlocked(rs, key) ==
  IF rs[key] = NoRow
    THEN [err |-> "notfound", res |-> NoRes]
    ELSE [err |-> "", res |-> Unmarshal(rs[key].data)]

\* Put, lines 87-101: the fields Put sets in the caller's resource.
isNew(res) == res.uid = NoUID

PutStampKeepsStatus(res, now, n) ==
  LET r1 == IF isNew(res)
              THEN [res EXCEPT !.uid = NewUUID(n), !.createdAt = now]
              ELSE res
  IN [r1 EXCEPT !.updatedAt = now]

PutStamp(res, now, n) ==
  LET r1 == IF isNew(res)
              THEN [res EXCEPT !.uid = NewUUID(n), !.createdAt = now]
              ELSE res
      r2 == [r1 EXCEPT !.updatedAt = now]
      r3 == IF r2.state = ""
              THEN [r2 EXCEPT !.state = "Registered", !.health = "Unknown"]
              ELSE r2
  IN [r3 EXCEPT !.lastUpdated = now]

\* INSERT ... ON CONFLICT(kind, namespace, name) DO UPDATE SET data, updated_at
UpsertDoNothing(rs, res, now) ==
  IF rs[KeyOf(res)] = NoRow
    THEN [rs EXCEPT ![KeyOf(res)] =
            [present |-> TRUE, uid |-> res.uid, data |-> Marshal(res),
             created_at |-> now, updated_at |-> now]]
    ELSE rs

Upsert(rs, res, now) ==
  IF rs[KeyOf(res)] = NoRow
    THEN [rs EXCEPT ![KeyOf(res)] =
            [present |-> TRUE, uid |-> res.uid, data |-> Marshal(res),
             created_at |-> now, updated_at |-> now]]
    ELSE [rs EXCEPT ![KeyOf(res)].data = Marshal(res),
                    ![KeyOf(res)].updated_at = now]

\* DELETE FROM resources WHERE kind = ? AND namespace = ? AND name = ?
DeleteRowOtherKey(rs, key) == rs

DeleteRow(rs, key) == [rs EXCEPT ![key] = NoRow]

\* The same statements on the table as SQLite holds it, a sequence of rows:
\* the primary key (kind, namespace, name) decides between insert and update.
RowKey(r) == <<r.kind, r.namespace, r.name>>

ResourceRow(res, now) ==
  [kind |-> res.kind, namespace |-> res.namespace, name |-> res.name,
   uid |-> res.uid, data |-> Marshal(res), created_at |-> now, updated_at |-> now]

InsertAlways(tbl, row) == Append(tbl, row)

InsertOrUpdate(tbl, row) ==
  IF \E i \in DOMAIN tbl : RowKey(tbl[i]) = RowKey(row)
    THEN [i \in DOMAIN tbl |->
            IF RowKey(tbl[i]) = RowKey(row)
              THEN [tbl[i] EXCEPT !.data = row.data, !.updated_at = row.updated_at]
              ELSE tbl[i]]
    ELSE Append(tbl, row)

DeleteFrom(tbl, key) == SelectSeq(tbl, LAMBDA r : RowKey(r) # key)

\* List: SELECT data FROM resources WHERE kind = ? [AND namespace = ?], each
\* row unmarshalled, in the order the rows come.
ListQuery(tbl, kind, namespace) ==
  LET hit == SelectSeq(tbl, LAMBDA r :
                r.kind = kind /\ (namespace = "" \/ r.namespace = namespace))
  IN [i \in DOMAIN hit |-> Unmarshal(hit[i].data)]

\* The event Delete hands to emit, line 200.
DeletedEventNoResource(res) == [type |-> EventDeleted, resource |-> NoRes]

DeletedEvent(res) == [type |-> EventDeleted, resource |-> res]

\* The event type Put chooses, lines 120-123.
PutEventType(new) == IF new THEN EventCreated ELSE EventUpdated

\* ------------------------------------------------------------ channels
\* select { case ch <- event: default: }
TrySend(ch, event) == IF Len(ch) < ChanCap THEN Append(ch, event) ELSE ch

\* for _, ch := range s.watchers[kind] { select ... }
emitToEveryKind(ws, kind, event) ==
  [k \in DOMAIN ws |-> [i \in DOMAIN ws[k] |-> TrySend(ws[k][i], event)]]

emitUntilFull(ws, kind, event) ==
  [ws EXCEPT ![kind] = [i \in DOMAIN ws[kind] |->
     IF \E j \in 1..i : Len(ws[kind][j]) >= ChanCap
       THEN ws[kind][i]
       ELSE TrySend(ws[kind][i], event)]]

emit(ws, kind, event) ==
  [ws EXCEPT ![kind] = [i \in DOMAIN ws[kind] |-> TrySend(ws[kind][i], event)]]

\* Goroutines that have called Put and not yet read time.Now().
PendingWrites == Cardinality({p \in Procs : pc[p] = "putLock"})
\* The channels registered so far, plus the goroutines registering one.
WatchCount ==
  Cardinality({p \in Procs : pc[p] = "watchAppend"})
  + Len(watchers["Agent"]) + Len(watchers["Pipeline"])

\* ------------------------------------------------------------------ Put
\* A goroutine calls Put(res) and waits for s.mu.
PutCall(p, res) ==
  /\ pc[p] = "idle"
  /\ pc' = [pc EXCEPT ![p] = "putLock"]
  /\ local' = [local EXCEPT ![p] = [NoLocal EXCEPT !.op = "Put", !.key = KeyOf(res), !.res = res]]
  /\ deletedSince' = [deletedSince EXCEPT ![KeyOf(res)] = "no"]
  /\ UNCHANGED <<store, bus, mu, watchMu, ledger, registry>>

\* s.mu.Lock() and lines 87-123: stamp the resource, marshal it, upsert the
\* row, choose the event. fail: s.db.Exec returned an error.
PutWriteThenUnlock(p, fail) ==
  /\ pc[p] = "putLock"
  /\ CanLock(mu)
  /\ mu' = mu
  /\ LET now == clock + 1
         new == isNew(local[p].res)
         n == IF new THEN uuids + 1 ELSE uuids
         res == PutStamp(local[p].res, now, n)
     IN /\ clock' = now
        /\ uuids' = n
        /\ IF fail
             THEN /\ local' = [local EXCEPT ![p].res = res, ![p].err = "storage"]
                  /\ pc' = [pc EXCEPT ![p] = "unlock"]
                  /\ UNCHANGED <<rows, committed, table>>
             ELSE /\ rows' = Upsert(rows, res, now)
                  /\ table' = InsertOrUpdate(table, ResourceRow(res, now))
                  /\ committed' = [committed EXCEPT ![res.kind] =
                        Append(@, [op |-> "Put", data |-> Upsert(rows, res, now)[KeyOf(res)].data])]
                  /\ local' = [local EXCEPT ![p].res = res,
                        ![p].evt = [type |-> PutEventType(new), resource |-> res]]
                  /\ pc' = [pc EXCEPT ![p] = "emit"]
  /\ UNCHANGED <<bus, watchMu, deletedSince, ledger, registry>>

PutWrite(p, fail) ==
  /\ pc[p] = "putLock"
  /\ CanLock(mu)
  /\ mu' = Lock(mu, p)
  /\ LET now == clock + 1
         new == isNew(local[p].res)
         n == IF new THEN uuids + 1 ELSE uuids
         res == PutStamp(local[p].res, now, n)
     IN /\ clock' = now
        /\ uuids' = n
        /\ IF fail
             THEN /\ local' = [local EXCEPT ![p].res = res, ![p].err = "storage"]
                  /\ pc' = [pc EXCEPT ![p] = "unlock"]
                  /\ UNCHANGED <<rows, committed, table>>
             ELSE /\ rows' = Upsert(rows, res, now)
                  /\ table' = InsertOrUpdate(table, ResourceRow(res, now))
                  /\ committed' = [committed EXCEPT ![res.kind] =
                        Append(@, [op |-> "Put", data |-> Upsert(rows, res, now)[KeyOf(res)].data])]
                  /\ local' = [local EXCEPT ![p].res = res,
                        ![p].evt = [type |-> PutEventType(new), resource |-> res]]
                  /\ pc' = [pc EXCEPT ![p] = "emit"]
  /\ UNCHANGED <<bus, watchMu, deletedSince, ledger, registry>>

\* ----------------------------------------------------------------- emit
\* s.watchMu.RLock(), the loop over s.watchers[kind] and the deferred
\* s.watchMu.RUnlock(). Nothing in the loop blocks, and a receive that
\* interleaves with it commutes with the sends to the other channels, so emit
\* is one step, taken when no Watch holds s.watchMu.
EmitSendBlocking(p) ==
  /\ pc[p] = "emit"
  /\ CanRLock(watchMu)
  /\ \A i \in DOMAIN watchers[local[p].key[1]] : Len(watchers[local[p].key[1]][i]) < ChanCap
  /\ watchers' = emit(watchers, local[p].key[1], local[p].evt)
  /\ published' = [published EXCEPT ![local[p].key[1]] = Append(@, local[p].evt)]
  /\ pc' = [pc EXCEPT ![p] = "unlock"]
  /\ UNCHANGED <<store, received, regAt, mu, watchMu, local, deletedSince, ledger, registry>>

EmitSend(p) ==
  /\ pc[p] = "emit"
  /\ CanRLock(watchMu)
  /\ watchers' = emit(watchers, local[p].key[1], local[p].evt)
  /\ published' = [published EXCEPT ![local[p].key[1]] = Append(@, local[p].evt)]
  /\ pc' = [pc EXCEPT ![p] = "unlock"]
  /\ UNCHANGED <<store, received, regAt, mu, watchMu, local, deletedSince, ledger, registry>>

\* The calls of operation op on key that have begun and not returned.
InFlight(op, key) == {q \in Procs : pc[q] # "idle" /\ local[q].op = op /\ local[q].key = key}
AfterDelete(key) ==
  IF InFlight("Put", key) # {} THEN "no"
  ELSE IF InFlight("UpdateStatus", key) # {} THEN "inflight"
  ELSE "quiet"

\* return, and the deferred s.mu.Unlock() of Put and Delete.
MuUnlock(p) ==
  /\ pc[p] = "unlock"
  /\ mu' = Unlock(mu, p)
  /\ deletedSince' = IF local[p].op = "Delete" /\ local[p].err = ""
                       THEN [deletedSince EXCEPT ![local[p].key] = AfterDelete(local[p].key)]
                       ELSE deletedSince
  /\ local' = [local EXCEPT ![p] = NoLocal]
  /\ pc' = [pc EXCEPT ![p] = "idle"]
  /\ UNCHANGED <<store, bus, watchMu, ledger, registry>>

\* ------------------------------------------------------------------ Get
\* s.mu.RLock(), the query and the unmarshal; the result waits in local.
GetRead(p, key) ==
  /\ pc[p] = "idle"
  /\ CanRLock(mu)
  /\ mu' = RLock(mu, p)
  /\ LET g == getUnlocked(rows, key)
     IN local' = [local EXCEPT ![p] =
           [NoLocal EXCEPT !.op = "Get", !.key = key, !.res = g.res, !.err = g.err]]
  /\ pc' = [pc EXCEPT ![p] = "getRet"]
  /\ UNCHANGED <<store, bus, watchMu, deletedSince, ledger, registry>>

\* The deferred s.mu.RUnlock() and the return.
GetReturn(p) ==
  /\ pc[p] = "getRet"
  /\ mu' = RUnlock(mu, p)
  /\ local' = [local EXCEPT ![p] = NoLocal]
  /\ pc' = [pc EXCEPT ![p] = "idle"]
  /\ UNCHANGED <<store, bus, watchMu, deletedSince, ledger, registry>>

\* ----------------------------------------------------------------- List
\* s.mu.RLock(), the query and the loop over its rows; the result waits in
\* local.
ListRead(p, kind, namespace) ==
  /\ pc[p] = "idle"
  /\ CanRLock(mu)
  /\ mu' = RLock(mu, p)
  /\ local' = [local EXCEPT ![p] =
        [NoLocal EXCEPT !.op = "List", !.key = <<kind, namespace, "">>,
                        !.list = ListQuery(table, kind, namespace)]]
  /\ pc' = [pc EXCEPT ![p] = "readRet"]
  /\ UNCHANGED <<store, bus, watchMu, deletedSince, ledger, registry>>

\* The deferred s.mu.RUnlock() and the return of List and of the reads of the
\* executions table.
ReadReturn(p) ==
  /\ pc[p] = "readRet"
  /\ mu' = RUnlock(mu, p)
  /\ local' = [local EXCEPT ![p] = NoLocal]
  /\ pc' = [pc EXCEPT ![p] = "idle"]
  /\ UNCHANGED <<store, bus, watchMu, deletedSince, ledger, registry>>

\* --------------------------------------------------------------- Delete
\* A goroutine calls Delete(key) and waits for s.mu.
DeleteCall(p, key) ==
  /\ pc[p] = "idle"
  /\ pc' = [pc EXCEPT ![p] = "delLock"]
  /\ local' = [local EXCEPT ![p] = [NoLocal EXCEPT !.op = "Delete", !.key = key]]
  /\ UNCHANGED <<store, bus, mu, watchMu, deletedSince, ledger, registry>>

\* s.mu.Lock() and lines 187-198: getUnlocked, then DELETE FROM resources.
\* fail: s.db.Exec returned an error.
DeleteExecEmitsWhenMissing(p, fail) ==
  /\ pc[p] = "delLock"
  /\ CanLock(mu)
  /\ mu' = Lock(mu, p)
  /\ LET g == getUnlocked(rows, local[p].key)
     IN IF g.err = "" /\ fail
          THEN /\ local' = [local EXCEPT ![p].err = "storage"]
               /\ pc' = [pc EXCEPT ![p] = "unlock"]
               /\ UNCHANGED <<rows, committed, table>>
          ELSE /\ rows' = DeleteRow(rows, local[p].key)
               /\ table' = DeleteFrom(table, local[p].key)
               /\ committed' = IF g.err = ""
                     THEN [committed EXCEPT ![local[p].key[1]] =
                            Append(@, [op |-> "Delete", data |-> rows[local[p].key].data])]
                     ELSE committed
               /\ local' = [local EXCEPT ![p].res = g.res, ![p].err = g.err,
                     ![p].evt = DeletedEvent(g.res)]
               /\ pc' = [pc EXCEPT ![p] = "emit"]
  /\ UNCHANGED <<clock, uuids, bus, watchMu, deletedSince, ledger, registry>>

DeleteExec(p, fail) ==
  /\ pc[p] = "delLock"
  /\ CanLock(mu)
  /\ mu' = Lock(mu, p)
  /\ LET g == getUnlocked(rows, local[p].key)
     IN IF g.err # ""
          THEN /\ local' = [local EXCEPT ![p].err = g.err]
               /\ pc' = [pc EXCEPT ![p] = "unlock"]
               /\ UNCHANGED <<rows, committed, table>>
          ELSE IF fail
          THEN /\ local' = [local EXCEPT ![p].err = "storage"]
               /\ pc' = [pc EXCEPT ![p] = "unlock"]
               /\ UNCHANGED <<rows, committed, table>>
          ELSE /\ rows' = DeleteRow(rows, local[p].key)
               /\ table' = DeleteFrom(table, local[p].key)
               /\ committed' = [committed EXCEPT ![local[p].key[1]] =
                     Append(@, [op |-> "Delete", data |-> rows[local[p].key].data])]
               /\ local' = [local EXCEPT ![p].res = g.res,
                     ![p].evt = DeletedEvent(g.res)]
               /\ pc' = [pc EXCEPT ![p] = "emit"]
  /\ UNCHANGED <<clock, uuids, bus, watchMu, deletedSince, ledger, registry>>

\* --------------------------------------------------------- UpdateStatus
\* s.Get(kind, namespace, name) with its RLock and RUnlock; on an error
\* UpdateStatus returns it, else it replaces res.Status and calls s.Put(res).
\* The LastUpdated of line 210 is overwritten by Put at line 101 before
\* anything reads it.
UpdateStatusRead(p, key, status) ==
  /\ pc[p] = "idle"
  /\ CanRLock(mu)
  /\ LET g == getUnlocked(rows, key)
     IN IF g.err # ""
          THEN UNCHANGED <<pc, local>>
          ELSE /\ local' = [local EXCEPT ![p] =
                     [NoLocal EXCEPT !.op = "UpdateStatus", !.key = key,
                        !.res = [g.res EXCEPT !.state = status.state,
                                              !.health = status.health]]]
               /\ pc' = [pc EXCEPT ![p] = "putLock"]
  /\ deletedSince' = [deletedSince EXCEPT ![key] = "no"]
  /\ UNCHANGED <<store, bus, mu, watchMu, ledger, registry>>

\* ----------------------------------------------------------- executions
\* The rows of the executions table, as a set of ids.
ExecRows(ex) == {id \in DOMAIN ex : ex[id] # NoExec}

\* UPDATE executions SET state = ?, data = ?, updated_at = ? WHERE id = ?
UpdateExecRowClearsCheckpoint(row, e, now) ==
  [row EXCEPT !.state = e.state, !.data = MarshalExec(e), !.updated_at = now,
              !.checkpoint = Null]

UpdateExecRow(row, e, now) ==
  [row EXCEPT !.state = e.state, !.data = MarshalExec(e), !.updated_at = now]

\* UPDATE executions SET checkpoint = ?, updated_at = ? WHERE id = ?
SaveCheckpointRow(row, b, now) ==
  [row EXCEPT !.checkpoint = BindBytes(b), !.updated_at = now]

\* SELECT checkpoint FROM executions WHERE id = ?, and LoadCheckpoint's result.
LoadResultNotFound(ex, id) ==
  IF ex[id] = NoExec
    THEN [blob |-> NilBytes, err |-> "notfound"]
    ELSE [blob |-> ScanBytes(ex[id].checkpoint), err |-> ""]

LoadResult(ex, id) ==
  IF ex[id] = NoExec
    THEN [blob |-> NilBytes, err |-> ""]
    ELSE [blob |-> ScanBytes(ex[id].checkpoint), err |-> ""]

\* SELECT data FROM executions WHERE id = ?, and GetExecution's result.
GetExecutionQuery(ex, id) ==
  IF ex[id] = NoExec
    THEN [exec |-> NoExecRec, err |-> "notfound"]
    ELSE [exec |-> UnmarshalExec(ex[id].data), err |-> ""]

\* The ids in ids, by the column col of their rows, largest first.
RECURSIVE OrderDesc(_, _, _)
OrderDesc(ex, ids, col) ==
  IF ids = {} THEN <<>>
  ELSE LET top == CHOOSE i \in ids : \A j \in ids : ex[j][col] <= ex[i][col]
       IN <<top>> \o OrderDesc(ex, ids \ {top}, col)

Limit(seq, limit) ==
  IF limit > 0 /\ limit < Len(seq) THEN SubSeq(seq, 1, limit) ELSE seq

\* SELECT data FROM executions [WHERE namespace = ?] ORDER BY created_at DESC
\* [LIMIT ?], each row unmarshalled.
ExecsOf(ex, namespace) ==
  {id \in ExecRows(ex) : namespace = "" \/ ex[id].namespace = namespace}

ListExecutionsByUpdate(ex, namespace, limit) ==
  LET ids == Limit(OrderDesc(ex, ExecsOf(ex, namespace), "updated_at"), limit)
  IN [i \in DOMAIN ids |-> UnmarshalExec(ex[ids[i]].data)]

ListExecutionsQuery(ex, namespace, limit) ==
  LET ids == Limit(OrderDesc(ex, ExecsOf(ex, namespace), "created_at"), limit)
  IN [i \in DOMAIN ids |-> UnmarshalExec(ex[ids[i]].data)]

\* CreateExecution: s.mu.Lock(), the id, the two time stamps, the INSERT. An id
\* that has a row fails the PRIMARY KEY constraint. The checkpoint column is
\* not among the inserted ones and starts NULL.
CreateExecution(p, exec) ==
  /\ pc[p] = "idle"
  /\ CanLock(mu)
  /\ mu' = Lock(mu, p)
  /\ LET now == clock + 1
         id == IF exec.id = "" THEN GeneratedID ELSE exec.id
         e == [exec EXCEPT !.id = id, !.createdAt = now, !.updatedAt = now]
     IN /\ clock' = now
        /\ uuids' = IF exec.id = "" THEN uuids + 1 ELSE uuids
        /\ IF execs[id] # NoExec
             THEN /\ local' = [local EXCEPT ![p] =
                        [NoLocal EXCEPT !.op = "CreateExecution", !.id = id, !.exec = e,
                                        !.err = "constraint"]]
                  /\ UNCHANGED <<execs, created>>
             ELSE /\ created' = Append(created, [id |-> id, namespace |-> e.namespace])
                  /\ execs' = [execs EXCEPT ![id] =
                        [present |-> TRUE, namespace |-> e.namespace,
                         agent_name |-> e.agentName, state |-> e.state,
                         data |-> MarshalExec(e), checkpoint |-> Null,
                         created_at |-> now, updated_at |-> now]]
                  /\ local' = [local EXCEPT ![p] =
                        [NoLocal EXCEPT !.op = "CreateExecution", !.id = id, !.exec = e]]
  /\ pc' = [pc EXCEPT ![p] = "unlock"]
  /\ UNCHANGED <<rows, committed, table, saved, logs, bus, watchMu, deletedSince,
                 registry>>

\* GetExecution: s.mu.RLock(), the query and the unmarshal.
GetExecution(p, id) ==
  /\ pc[p] = "idle"
  /\ CanRLock(mu)
  /\ mu' = RLock(mu, p)
  /\ local' = [local EXCEPT ![p] =
        [NoLocal EXCEPT !.op = "GetExecution", !.id = id,
                        !.exec = GetExecutionQuery(execs, id).exec,
                        !.err = GetExecutionQuery(execs, id).err]]
  /\ pc' = [pc EXCEPT ![p] = "readRet"]
  /\ UNCHANGED <<store, bus, watchMu, deletedSince, ledger, registry>>

\* UpdateExecution: s.mu.Lock(), the time stamp, the UPDATE; the number of rows
\* it changed is not looked at.
UpdateExecution(p, exec) ==
  /\ pc[p] = "idle"
  /\ CanLock(mu)
  /\ mu' = Lock(mu, p)
  /\ LET now == clock + 1
         e == [exec EXCEPT !.updatedAt = now]
     IN /\ clock' = now
        /\ execs' = IF execs[e.id] = NoExec THEN execs
                    ELSE [execs EXCEPT ![e.id] = UpdateExecRow(@, e, now)]
        /\ local' = [local EXCEPT ![p] =
              [NoLocal EXCEPT !.op = "UpdateExecution", !.id = e.id, !.exec = e]]
  /\ pc' = [pc EXCEPT ![p] = "unlock"]
  /\ UNCHANGED <<rows, uuids, committed, table, created, saved, logs, bus, watchMu,
                 deletedSince, registry>>

\* ListExecutions: s.mu.RLock(), the query and the loop over its rows.
ListExecutions(p, namespace, limit) ==
  /\ pc[p] = "idle"
  /\ CanRLock(mu)
  /\ mu' = RLock(mu, p)
  /\ local' = [local EXCEPT ![p] =
        [NoLocal EXCEPT !.op = "ListExecutions", !.key = <<"", namespace, "">>,
                        !.limit = limit,
                        !.list = ListExecutionsQuery(execs, namespace, limit)]]
  /\ pc' = [pc EXCEPT ![p] = "readRet"]
  /\ UNCHANGED <<store, bus, watchMu, deletedSince, ledger, registry>>

\* SaveCheckpoint: s.mu.Lock() and the UPDATE; the number of rows it changed is
\* not looked at.
SaveCheckpoint(p, id, b) ==
  /\ pc[p] = "idle"
  /\ CanLock(mu)
  /\ mu' = Lock(mu, p)
  /\ clock' = clock + 1
  /\ execs' = IF execs[id] = NoExec THEN execs
              ELSE [execs EXCEPT ![id] = SaveCheckpointRow(@, b, clock + 1)]
  /\ saved' = [saved EXCEPT ![id] =
        [some |-> TRUE, b |-> b, hadRow |-> execs[id] # NoExec]]
  /\ local' = [local EXCEPT ![p] =
        [NoLocal EXCEPT !.op = "SaveCheckpoint", !.id = id, !.blob = b]]
  /\ pc' = [pc EXCEPT ![p] = "unlock"]
  /\ UNCHANGED <<rows, uuids, committed, table, created, logs, bus, watchMu,
                 deletedSince, registry>>

\* LoadCheckpoint: s.mu.RLock(), the query and the scan.
LoadCheckpoint(p, id) ==
  /\ pc[p] = "idle"
  /\ CanRLock(mu)
  /\ mu' = RLock(mu, p)
  /\ local' = [local EXCEPT ![p] =
        [NoLocal EXCEPT !.op = "LoadCheckpoint", !.id = id,
                        !.blob = LoadResult(execs, id).blob,
                        !.err = LoadResult(execs, id).err]]
  /\ pc' = [pc EXCEPT ![p] = "readRet"]
  /\ UNCHANGED <<store, bus, watchMu, deletedSince, ledger, registry>>

\* SELECT timestamp, level, message, step FROM execution_logs
\* WHERE execution_id = ? ORDER BY timestamp ASC
RECURSIVE OrderByTimestamp(_)
OrderByTimestamp(seq) ==
  IF seq = <<>> THEN <<>>
  ELSE LET i == CHOOSE i \in DOMAIN seq : \A j \in DOMAIN seq :
                  \/ seq[i].timestamp < seq[j].timestamp
                  \/ seq[i].timestamp = seq[j].timestamp /\ i <= j
       IN <<seq[i]>> \o OrderByTimestamp(SubSeq(seq, 1, i - 1) \o SubSeq(seq, i + 1, Len(seq)))

GetExecutionLogsQuery(lg, id) ==
  LET Mine(r) == r.execution_id = id
      mine == OrderByTimestamp(SelectSeq(lg, Mine))
  IN [i \in DOMAIN mine |->
        ExecutionLog(mine[i].timestamp, mine[i].level, mine[i].message, mine[i].step)]

\* AppendExecutionLog: s.mu.Lock() and the INSERT. SQLite does not enforce the
\* FOREIGN KEY of execution_logs unless the connection turns that on, which
\* NewSQLiteStore does not: the row is inserted whether or not the execution
\* exists.
AppendExecutionLog(p, id, logEntry) ==
  /\ pc[p] = "idle"
  /\ CanLock(mu)
  /\ mu' = Lock(mu, p)
  /\ logs' = Append(logs, [execution_id |-> id, timestamp |-> logEntry.timestamp,
                           level |-> logEntry.level, message |-> logEntry.message,
                           step |-> logEntry.step])
  /\ local' = [local EXCEPT ![p] =
        [NoLocal EXCEPT !.op = "AppendExecutionLog", !.id = id, !.entry = logEntry]]
  /\ pc' = [pc EXCEPT ![p] = "unlock"]
  /\ UNCHANGED <<store, execs, created, saved, bus, watchMu, deletedSince, registry>>

\* GetExecutionLogs: s.mu.RLock(), the query and the loop over its rows.
GetExecutionLogs(p, id) ==
  /\ pc[p] = "idle"
  /\ CanRLock(mu)
  /\ mu' = RLock(mu, p)
  /\ local' = [local EXCEPT ![p] =
        [NoLocal EXCEPT !.op = "GetExecutionLogs", !.id = id,
                        !.list = GetExecutionLogsQuery(logs, id)]]
  /\ pc' = [pc EXCEPT ![p] = "readRet"]
  /\ UNCHANGED <<store, bus, watchMu, deletedSince, ledger, registry>>

\* ------------------------------------------------------ MetricsRegistry
\* The maps hold one metric object per registered name; the registry never
\* changes an object's value, which a fresh object has at zero.
MetricNames == {"requests", "errors"}

\* The keys and values of the map Snapshot builds.
SnapshotResult(cs, gs, hs) ==
  {<<"counter." \o n, 0>> : n \in cs} \cup {<<"gauge." \o n, 0>> : n \in gs}
  \cup UNION {{<<"histogram." \o n \o ".count", 0>>, <<"histogram." \o n \o ".sum", 0>>,
               <<"histogram." \o n \o ".avg", 0>>} : n \in hs}

\* Counter(name): r.mu.Lock(), the lookup and, for a new name, the insert.
Counter(p, name) ==
  /\ ~crashed
  /\ pc[p] = "idle"
  /\ CanLock(regMu)
  /\ regMu' = Lock(regMu, p)
  /\ counters' = counters \cup {name}
  /\ local' = [local EXCEPT ![p] = [NoLocal EXCEPT !.op = "Counter", !.name = name]]
  /\ pc' = [pc EXCEPT ![p] = "regUnlock"]
  /\ UNCHANGED <<store, bus, mu, watchMu, deletedSince, ledger, gauges, histograms, crashed>>

\* Gauge(name): r.mu.Lock(), the lookup and, for a new name, the insert.
Gauge(p, name) ==
  /\ ~crashed
  /\ pc[p] = "idle"
  /\ CanLock(regMu)
  /\ regMu' = Lock(regMu, p)
  /\ gauges' = gauges \cup {name}
  /\ local' = [local EXCEPT ![p] = [NoLocal EXCEPT !.op = "Gauge", !.name = name]]
  /\ pc' = [pc EXCEPT ![p] = "regUnlock"]
  /\ UNCHANGED <<store, bus, mu, watchMu, deletedSince, ledger, counters, histograms, crashed>>

\* Histogram(name): r.mu.Lock(), the lookup and, for a new name, the insert.
Histogram(p, name) ==
  /\ ~crashed
  /\ pc[p] = "idle"
  /\ CanLock(regMu)
  /\ regMu' = Lock(regMu, p)
  /\ histograms' = histograms \cup {name}
  /\ local' = [local EXCEPT ![p] = [NoLocal EXCEPT !.op = "Histogram", !.name = name]]
  /\ pc' = [pc EXCEPT ![p] = "regUnlock"]
  /\ UNCHANGED <<store, bus, mu, watchMu, deletedSince, ledger, counters, gauges, crashed>>

\* The deferred r.mu.Unlock() of Counter, Gauge and Histogram, and the return.
RegistryUnlock(p) ==
  /\ ~crashed
  /\ pc[p] = "regUnlock"
  /\ regMu' = Unlock(regMu, p)
  /\ local' = [local EXCEPT ![p] = NoLocal]
  /\ pc' = [pc EXCEPT ![p] = "idle"]
  /\ UNCHANGED <<store, bus, mu, watchMu, deletedSince, ledger, counters, gauges,
                 histograms, crashed>>

\* Snapshot: r.mu.Lock() and the three loops that fill the result.
Snapshot(p) ==
  /\ ~crashed
  /\ pc[p] = "idle"
  /\ CanLock(regMu)
  /\ regMu' = Lock(regMu, p)
  /\ local' = [local EXCEPT ![p] =
        [NoLocal EXCEPT !.op = "Snapshot",
                        !.snap = SnapshotResult(counters, gauges, histograms)]]
  /\ pc' = [pc EXCEPT ![p] = "snapRUnlock"]
  /\ UNCHANGED <<store, bus, mu, watchMu, deletedSince, ledger, counters, gauges,
                 histograms, crashed>>

\* sync.RWMutex.RUnlock: with a reader inside it lets that reader go; with
\* none, as when the mutex is held for writing, the Go runtime stops the
\* process with "fatal error: sync: RUnlock of unlocked RWMutex", which no
\* recover() catches.
RUnlockFatal(m) == m.readers = {}

\* The deferred r.mu.RUnlock() of Snapshot, and the return.
SnapshotRUnlock(p) ==
  /\ ~crashed
  /\ pc[p] = "snapRUnlock"
  /\ IF RUnlockFatal(regMu)
       THEN /\ crashed' = TRUE
            /\ UNCHANGED <<regMu, pc, local>>
       ELSE /\ regMu' = RUnlock(regMu, p)
            /\ local' = [local EXCEPT ![p] = NoLocal]
            /\ pc' = [pc EXCEPT ![p] = "idle"]
            /\ UNCHANGED crashed
  /\ UNCHANGED <<store, bus, mu, watchMu, deletedSince, ledger, counters, gauges,
                 histograms>>

\* ---------------------------------------------------------------- Watch
\* s.watchMu.Lock()
WatchLock(p, kind) ==
  /\ pc[p] = "idle"
  /\ CanLock(watchMu)
  /\ watchMu' = Lock(watchMu, p)
  /\ local' = [local EXCEPT ![p] = [NoLocal EXCEPT !.op = "Watch", !.key = <<kind, "", "">>]]
  /\ pc' = [pc EXCEPT ![p] = "watchAppend"]
  /\ UNCHANGED <<store, bus, mu, deletedSince, ledger, registry>>

\* make(chan ResourceEvent, 100), the append, the deferred Unlock, the return.
WatchAppendReplays(p) ==
  /\ pc[p] = "watchAppend"
  /\ LET kind == local[p].key[1]
     IN /\ watchers' = [watchers EXCEPT ![kind] = Append(@, published[kind])]
        /\ received' = [received EXCEPT ![kind] = Append(@, <<>>)]
        /\ regAt' = [regAt EXCEPT ![kind] =
              Append(@, [pub |-> Len(published[kind]), com |-> Len(committed[kind])])]
  /\ watchMu' = Unlock(watchMu, p)
  /\ local' = [local EXCEPT ![p] = NoLocal]
  /\ pc' = [pc EXCEPT ![p] = "idle"]
  /\ UNCHANGED <<store, published, mu, deletedSince, ledger, registry>>

WatchAppend(p) ==
  /\ pc[p] = "watchAppend"
  /\ LET kind == local[p].key[1]
     IN /\ watchers' = [watchers EXCEPT ![kind] = Append(@, <<>>)]
        /\ received' = [received EXCEPT ![kind] = Append(@, <<>>)]
        /\ regAt' = [regAt EXCEPT ![kind] =
              Append(@, [pub |-> Len(published[kind]), com |-> Len(committed[kind])])]
  /\ watchMu' = Unlock(watchMu, p)
  /\ local' = [local EXCEPT ![p] = NoLocal]
  /\ pc' = [pc EXCEPT ![p] = "idle"]
  /\ UNCHANGED <<store, published, mu, deletedSince, ledger, registry>>

\* The holder of a channel returned by Watch receives its oldest event.
Recv(kind, i) ==
  /\ i \in DOMAIN watchers[kind]
  /\ watchers[kind][i] # <<>>
  /\ received' = [received EXCEPT ![kind][i] = Append(@, Head(watchers[kind][i]))]
  /\ watchers' = [watchers EXCEPT ![kind][i] = Tail(@)]
  /\ UNCHANGED <<store, published, regAt, mu, watchMu, pc, local, deletedSince, ledger, registry>>

\* ------------------------------------------------------- specifications
\* Spec: the resource catalog. Writes go to the Agent key, with and without a
\* uid; Delete addresses every key; watchers of Agent register at any time
\* and never receive.
AgentKey == <<"Agent", "default", "a">>
PutInputs ==
  {Resource("Agent", "default", "a", uid, sp, Status("", "")) :
     uid \in {NoUID, CallerUID}, sp \in Specs}

Next ==
  \E p \in Procs :
    \/ clock + PendingWrites < MaxClock /\ \E r \in PutInputs : PutCall(p, r)
    \/ \E fail \in BOOLEAN : PutWrite(p, fail)
    \/ EmitSend(p)
    \/ MuUnlock(p)
    \/ GetRead(p, AgentKey)
    \/ GetReturn(p)
    \/ \E k \in Keys : DeleteCall(p, k)
    \/ \E fail \in BOOLEAN : DeleteExec(p, fail)
    \/ clock + PendingWrites < MaxClock
         /\ \E st \in StatusInputs : UpdateStatusRead(p, AgentKey, st)
    \/ WatchCount < StoreWatchers /\ WatchLock(p, "Agent")
    \/ WatchAppend(p)

Spec == Init /\ [][Next]_vars

\* SpecWatch: one watched kind. Two goroutines write and delete the Agent
\* key; the holder of a channel receives at any time.
WatchInput == Resource("Agent", "default", "a", NoUID, "s1", Status("", ""))

NextWatch ==
  \/ \E p \in Procs :
       \/ clock + PendingWrites < MaxEvents /\ PutCall(p, WatchInput)
       \/ PutWrite(p, FALSE)
       \/ EmitSend(p)
       \/ MuUnlock(p)
       \/ DeleteCall(p, AgentKey)
       \/ DeleteExec(p, FALSE)
       \/ WatchCount < MaxWatchers /\ WatchLock(p, "Agent")
       \/ WatchAppend(p)
  \/ \E i \in 1..MaxWatchers : Recv("Agent", i)

SpecWatch == Init /\ [][NextWatch]_vars

\* SpecKinds: both kinds are written, status-updated, deleted and watched.
\* One goroutine issues the writes while either registers watchers.
KindInputs ==
  {Resource(k[1], k[2], k[3], NoUID, "s1", Status("", "")) : k \in Keys}

NextKinds ==
  \/ \E p \in {"g1"} :
       \/ clock + PendingWrites < KindEvents /\ \E r \in KindInputs : PutCall(p, r)
       \/ \E k \in Keys : DeleteCall(p, k)
       \/ clock + PendingWrites < KindEvents
            /\ \E k \in Keys, st \in StatusInputs : UpdateStatusRead(p, k, st)
  \/ \E p \in Procs :
       \/ PutWrite(p, FALSE)
       \/ EmitSend(p)
       \/ MuUnlock(p)
       \/ DeleteExec(p, FALSE)
       \/ WatchCount < KindWatchers /\ \E k \in Kinds : WatchLock(p, k)
       \/ WatchAppend(p)

SpecKinds == Init /\ [][NextKinds]_vars

\* SpecFull: channels filled beyond their capacity and never received from.
\* Goroutines put one resource until the channels are full; before the first
\* write, and once the capacity is reached, they also delete, read and register
\* watchers. The locks grant a waiting goroutine its turn (sync.RWMutex lets no
\* Lock or RLock wait forever while the lock keeps being released), and a
\* goroutine that can run does.
FullInput == Resource("Agent", "default", "a", CallerUID, "s1", Status("Ready", "Healthy"))
Saturated == clock >= ChanCap

NextFull ==
  \E p \in Procs :
    \/ clock + PendingWrites < ChanCap + Overflow /\ PutCall(p, FullInput)
    \/ PutWrite(p, FALSE)
    \/ EmitSend(p)
    \/ MuUnlock(p)
    \/ Saturated /\ GetRead(p, AgentKey)
    \/ GetReturn(p)
    \/ Saturated /\ DeleteCall(p, AgentKey)
    \/ DeleteExec(p, FALSE)
    \/ (clock = 0 \/ Saturated) /\ WatchCount < FullWatchers /\ WatchLock(p, "Agent")
    \/ WatchAppend(p)

SpecFull == Init /\ [][NextFull]_vars

\* Put, Delete, Get and Watch against subscribers that never receive: a
\* channel registered before the first write is full after ChanCap events.
NextStall ==
  \E p \in Procs :
    \/ clock + PendingWrites < ChanCap + StallOverflow /\ PutCall(p, FullInput)
    \/ PutWrite(p, FALSE)
    \/ EmitSend(p)
    \/ MuUnlock(p)
    \/ Saturated /\ GetRead(p, AgentKey)
    \/ GetReturn(p)
    \/ Saturated /\ DeleteCall(p, AgentKey)
    \/ DeleteExec(p, FALSE)
    \/ (clock = 0 \/ Saturated) /\ WatchCount < StallWatchers /\ WatchLock(p, "Agent")
    \/ WatchAppend(p)

\* A goroutine that has been called and can take its next step (the lock it
\* needs is free again and again) eventually takes it.
Proceed(p) ==
  \/ PutWrite(p, FALSE)
  \/ DeleteExec(p, FALSE)
  \/ EmitSend(p)
  \/ MuUnlock(p)
  \/ GetReturn(p)
  \/ WatchAppend(p)

FairStall == \A p \in Procs : SF_vars(Proceed(p))

SpecStall == Init /\ [][NextStall]_vars /\ FairStall


\* SpecList: the resources table under repeated writes. Two goroutines put
\* resources of both kinds, with and without a uid, update the status, delete
\* and list, with and without the namespace filter.
ListInputs ==
  PutInputs \cup KindInputs
    \cup {Resource("Agent", "default", "a", CallerUID, "s1", st) :
            st \in {Status("", "Healthy"), Status("Ready", "Healthy")}}

NextList ==
  \E p \in Procs :
    \/ clock + PendingWrites < ListWrites /\ \E r \in ListInputs : PutCall(p, r)
    \/ PutWrite(p, FALSE)
    \/ EmitSend(p)
    \/ MuUnlock(p)
    \/ \E ns \in Namespaces \cup {""} : ListRead(p, "Agent", ns)
    \/ ReadReturn(p)
    \/ DeleteCall(p, AgentKey)
    \/ DeleteExec(p, FALSE)
    \/ clock + PendingWrites < ListWrites
         /\ \E st \in StatusInputs : UpdateStatusRead(p, AgentKey, st)

SpecList == Init /\ [][NextList]_vars

\* SpecRace: UpdateStatus against Put on one key. Either goroutine puts the
\* Agent resource with one of two specs or updates its status; Get reads it.
RaceSpecs == {"s1", "s2"}
RaceInputs ==
  {Resource("Agent", "default", "a", CallerUID, sp, Status("", "")) : sp \in RaceSpecs}

NextRace ==
  \E p \in Procs :
    \/ clock + PendingWrites < RaceWrites /\ \E r \in RaceInputs : PutCall(p, r)
    \/ PutWrite(p, FALSE)
    \/ EmitSend(p)
    \/ MuUnlock(p)
    \/ GetRead(p, AgentKey)
    \/ GetReturn(p)
    \/ clock + PendingWrites < RaceWrites
         /\ \E st \in StatusInputs : UpdateStatusRead(p, AgentKey, st)

SpecRace == Init /\ [][NextRace]_vars

\* SpecLedger: one execution's record and checkpoint. Two goroutines create
\* executions (one without an id), overwrite the record, save nil, empty and
\* non-empty checkpoints and read both back; e9 is never created.
CheckpointInputs == {NilBytes, Bytes(<<>>), Bytes(<<1, 2>>)}
CreateInputs ==
  {Execution("e1", "default", "Pending", 0, NilBytes),
   Execution("", "other", "Pending", 0, NilBytes)}
UpdateInputs ==
  {Execution(id, "default", "Retrying", 1, cp) :
     id \in {"e1", "e9"}, cp \in {NilBytes, Bytes(<<>>)}}

NextLedger ==
  \E p \in Procs :
    \/ /\ clock < LedgerWrites
       /\ \/ \E e \in CreateInputs : (e.id = "" => uuids = 0) /\ CreateExecution(p, e)
          \/ \E e \in UpdateInputs : UpdateExecution(p, e)
          \/ \E id \in {"e1", "e9"}, b \in CheckpointInputs : SaveCheckpoint(p, id, b)
    \/ MuUnlock(p)
    \/ \E id \in {"e1", "e9"} : GetExecution(p, id)
    \/ \E id \in {"e1", "e9"} : LoadCheckpoint(p, id)
    \/ ReadReturn(p)

SpecLedger == Init /\ [][NextLedger]_vars

\* SpecListExec: listing the executions. Two goroutines create e1 and e2 in
\* namespace default and one execution without an id in namespace other,
\* overwrite records (once with a record that names the other namespace),
\* save checkpoints, and list a namespace with a negative, zero and positive
\* limit.
ListCreateInputs ==
  {Execution("e1", "default", "Pending", 0, NilBytes),
   Execution("e2", "default", "Pending", 0, NilBytes),
   Execution("", "other", "Pending", 0, NilBytes)}
ListUpdateInputs ==
  {Execution("e1", "default", "Retrying", 1, NilBytes),
   Execution("e1", "other", "Retrying", 1, NilBytes)}
ListLimits == {-1, 0, 1, 2}

NextListExec ==
  \E p \in Procs :
    \/ /\ clock < ListExecWrites
       /\ \/ \E e \in ListCreateInputs : (e.id = "" => uuids = 0) /\ CreateExecution(p, e)
          \/ \E e \in ListUpdateInputs : UpdateExecution(p, e)
          \/ SaveCheckpoint(p, "e1", Bytes(<<1, 2>>))
    \/ MuUnlock(p)
    \/ \E ns \in ExecNamespaces, k \in ListLimits : ListExecutions(p, ns, k)
    \/ ReadReturn(p)

SpecListExec == Init /\ [][NextListExec]_vars

\* SpecMutex: every operation that takes s.mu, on the resources and on the
\* executions, called by two goroutines at any time, with a watcher of Agent
\* that registers before the first write.
MutexExec == Execution("e1", "default", "Pending", 0, NilBytes)

NextMutex ==
  \E p \in Procs :
    \/ clock + PendingWrites < MutexWrites /\ PutCall(p, WatchInput)
    \/ PutWrite(p, FALSE)
    \/ EmitSend(p)
    \/ MuUnlock(p)
    \/ DeleteCall(p, AgentKey)
    \/ DeleteExec(p, FALSE)
    \/ GetRead(p, AgentKey)
    \/ GetReturn(p)
    \/ ListRead(p, "Agent", "default")
    \/ ReadReturn(p)
    \/ /\ clock + PendingWrites < MutexWrites
       /\ \/ CreateExecution(p, MutexExec)
          \/ UpdateExecution(p, [MutexExec EXCEPT !.state = "Retrying"])
          \/ SaveCheckpoint(p, "e1", Bytes(<<1, 2>>))
    \/ Len(logs) < MutexLogs /\ \E l \in LogInputs : AppendExecutionLog(p, "e1", l)
    \/ GetExecution(p, "e1")
    \/ ListExecutions(p, "default", 0)
    \/ GetExecutionLogs(p, "e1")
    \/ LoadCheckpoint(p, "e1")
    \/ clock = 0 /\ WatchCount < MutexWatchers /\ WatchLock(p, "Agent")
    \/ WatchAppend(p)

SpecMutex == Init /\ [][NextMutex]_vars

\* SpecMetrics: two goroutines register metrics under two names and take
\* snapshots of the registry.
NextMetrics ==
  \E p \in Procs :
    \/ \E n \in MetricNames : Counter(p, n)
    \/ \E n \in MetricNames : Gauge(p, n)
    \/ \E n \in MetricNames : Histogram(p, n)
    \/ RegistryUnlock(p)
    \/ Snapshot(p)
    \/ SnapshotRUnlock(p)

SpecMetrics == Init /\ [][NextMetrics]_vars

\* ------------------------------------------------------------ claims
Range(seq) == {seq[j] : j \in DOMAIN seq}
\* What watcher i of kind k has been given so far: received, then still queued.
Seen(k, i) == received[k][i] \o watchers[k][i]
\* Goroutines of kind k between their database write and their emit.
Emitting(k) == {p \in Procs : pc[p] = "emit" /\ local[p].key[1] = k}
IsDelete(c) == c.op = "Delete"
IsDeleted(e) == e.type = EventDeleted

\* C1: a watcher registered before the first write of its kind, whose channel
\* never filled, has been given exactly one event per committed Put/Delete of
\* that kind, in commit order: the j-th event carries the j-th commit's row.
C1_EventsInCommitOrder ==
  \A k \in Kinds : \A i \in DOMAIN watchers[k] :
    (regAt[k][i].com = 0 /\ Len(published[k]) < ChanCap) =>
      /\ Len(Seen(k, i)) = Len(committed[k]) - Cardinality(Emitting(k))
      /\ \A j \in 1..Len(Seen(k, i)) :
           LET e == Seen(k, i)[j]
               c == committed[k][j]
           IN IF IsDelete(c)
                THEN e.type = EventDeleted /\ Marshal(e.resource) = c.data
                ELSE e.type \in {EventCreated, EventUpdated}
                     /\ Marshal(e.resource) = c.data

C1_Witness ==
  \E i \in DOMAIN watchers["Agent"] :
    /\ regAt["Agent"][i].com = 0
    /\ Len(received["Agent"][i]) >= 1
    /\ Len(Seen("Agent", i)) >= 4
    /\ \E j \in 1..Len(Seen("Agent", i)) : IsDeleted(Seen("Agent", i)[j])

\* C2: the event of a successful Put is CREATED exactly when the key had no
\* row immediately before the write, whatever uid the caller supplied.
C2_CreatedIffNoRowBefore ==
  [][\A p \in Procs :
       (pc[p] = "putLock" /\ pc'[p] = "emit") =>
         (local'[p].evt.type = EventCreated <=> rows[local[p].key] = NoRow)]_vars

\* C3: with channels full and never received from, every Put and every Delete
\* that has been called returns; a Put succeeds, a Delete succeeds exactly
\* when its key had a row, and emit changes neither result.
C3_CallsReturn ==
  /\ \A p \in Procs : (pc[p] \in {"putLock", "delLock"}) ~> (pc[p] = "idle")
  /\ [][\A p \in Procs :
          /\ (pc[p] = "putLock" /\ pc'[p] # "putLock") => local'[p].err = ""
          /\ (pc[p] = "delLock" /\ pc'[p] # "delLock") =>
               (local'[p].err = "" <=> rows[local[p].key] # NoRow)
          /\ (pc[p] = "emit" /\ pc'[p] # "emit") =>
               (pc'[p] = "unlock" /\ local'[p].err = local[p].err)]_vars

C3_Witness ==
  \E p \in Procs :
    /\ pc[p] = "unlock" /\ local[p].op = "Delete" /\ local[p].err = ""
    /\ watchers["Agent"] # << >>
    /\ \A i \in DOMAIN watchers["Agent"] :
         regAt["Agent"][i].pub = 0 /\ Len(watchers["Agent"][i]) = ChanCap
    /\ Len(published["Agent"]) > ChanCap + 1

\* C4: no channel ever holds more than 100 events, and an emit leaves a full
\* channel as it is while appending the event to every other channel of the
\* kind.
C4_DropForFullOnly ==
  [][/\ \A k \in Kinds : \A i \in DOMAIN watchers'[k] : Len(watchers'[k][i]) <= ChanCap
     /\ \A p \in Procs :
          (pc[p] = "emit" /\ pc'[p] # "emit") =>
            \A i \in DOMAIN watchers[local[p].key[1]] :
              LET ch == watchers[local[p].key[1]][i]
                  ch2 == watchers'[local[p].key[1]][i]
              IN IF Len(ch) = ChanCap THEN ch2 = ch
                                      ELSE ch2 = Append(ch, local[p].evt)]_vars

C4_Witness ==
  \E i, j \in DOMAIN watchers["Agent"] :
    /\ Len(watchers["Agent"][i]) = ChanCap
    /\ Len(published["Agent"]) - regAt["Agent"][i].pub > ChanCap
    /\ Len(watchers["Agent"][j]) \in 1..(ChanCap - 1)
    /\ watchers["Agent"][j][Len(watchers["Agent"][j])]
         = published["Agent"][Len(published["Agent"])]
    /\ watchers["Agent"][i][ChanCap] # published["Agent"][Len(published["Agent"])]

\* C5: every event in the channel of a watcher of kind k carries a resource of
\* kind k.
C5_OnlyOwnKind ==
  \A k \in Kinds : \A i \in DOMAIN watchers[k] :
    \A e \in Range(Seen(k, i)) : e.resource.kind = k

C5_Witness ==
  \E i \in DOMAIN watchers["Agent"], j \in DOMAIN watchers["Pipeline"] :
    /\ regAt["Agent"][i].pub = 0 /\ regAt["Pipeline"][j].pub = 0
    /\ \E e \in Range(watchers["Agent"][i]) : IsDeleted(e)
    /\ Len(watchers["Pipeline"][j]) = 1
    /\ Len(published["Agent"]) = 2

\* C6: a watcher is given only events published after its registration: none
\* of the events published before it, and no more than were published since.
C6_NoBackfill ==
  \A k \in Kinds : \A i \in DOMAIN watchers[k] :
    /\ Range(Seen(k, i)) \cap Range(SubSeq(published[k], 1, regAt[k][i].pub)) = {}
    /\ Len(Seen(k, i)) <= Len(published[k]) - regAt[k][i].pub

C6_Witness ==
  \E i \in DOMAIN watchers["Agent"] :
    /\ regAt["Agent"][i].pub >= 2
    /\ Len(received["Agent"][i]) >= 1
    /\ Len(watchers["Agent"][i]) >= 1

\* C7: while the row of a key exists, the uid Get returns for it never changes.
C7_UidNeverChanges ==
  [][\A k \in Keys :
       (rows[k] # NoRow /\ rows'[k] # NoRow) =>
         getUnlocked(rows', k).res.uid = getUnlocked(rows, k).res.uid]_vars

\* C8: a Delete that finds no row goes from the lock straight to its return
\* with a not-found error: it passes no emit, and the rows and every watcher's
\* channel are as before when it returns.
C8_DeleteMissing ==
  [][\A p \in Procs :
       /\ (pc[p] = "delLock" /\ pc'[p] # "delLock" /\ rows[local[p].key] = NoRow) =>
            /\ pc'[p] = "unlock"
            /\ local'[p].err = "notfound"
            /\ rows' = rows /\ watchers' = watchers /\ published' = published
       /\ (pc[p] = "unlock" /\ local[p].op = "Delete" /\ local[p].err = "notfound"
             /\ pc'[p] # "unlock") =>
            /\ pc'[p] = "idle"
            /\ rows' = rows /\ watchers' = watchers /\ published' = published]_vars

C8_Witness ==
  \E p \in Procs :
    /\ pc[p] = "unlock" /\ local[p].op = "Delete" /\ local[p].err = "notfound"
    /\ rows[AgentKey] # NoRow
    /\ Len(watchers["Agent"]) >= 1

\* C9 as stated: once a Delete of a key has returned success, and until a Put
\* or UpdateStatus of that key is called, the key has no row and Get is
\* not-found, also when an UpdateStatus that began before the Delete was in
\* flight at its return.
C9_DeletedStaysDeleted ==
  \A k \in Keys : deletedSince[k] \in {"quiet", "inflight"} =>
    getUnlocked(rows, k).err = "notfound"

\* C9 as amended: the same, when no Put and no UpdateStatus of the key was in
\* flight at the Delete's return; every Get that returns then is not-found.
C9_DeletedStaysDeletedWhenQuiet ==
  /\ \A k \in Keys : deletedSince[k] = "quiet" => getUnlocked(rows, k).err = "notfound"
  /\ \A p \in Procs :
       (pc[p] = "getRet" /\ deletedSince[local[p].key] = "quiet") =>
         local[p].err = "notfound"

C9_Witness ==
  \E p \in Procs :
    /\ pc[p] = "getRet" /\ local[p].key = AgentKey
    /\ deletedSince[AgentKey] = "quiet"
    /\ clock >= 2

\* C10: the DELETED events published for a kind are, one for one and in order,
\* the committed deletions of that kind, each carrying the resource read from
\* the row as it was just before its deletion, which is the data written by
\* the last committed Put before it (a kind has one key here).
C10_DeletedCarriesLastWrite ==
  \A k \in Kinds :
    LET dels == SelectSeq(committed[k], IsDelete)
        evts == SelectSeq(published[k], IsDeleted)
        pending == {p \in Emitting(k) : local[p].op = "Delete"}
    IN /\ Len(evts) = Len(dels) - Cardinality(pending)
       /\ \A j \in 1..Len(evts) : evts[j].resource = Unmarshal(dels[j].data)
       /\ \A n \in DOMAIN committed[k] :
            IsDelete(committed[k][n]) =>
              /\ n > 1
              /\ ~IsDelete(committed[k][n - 1])
              /\ committed[k][n - 1].data = committed[k][n].data

C10_Witness ==
  \E j \in DOMAIN published["Agent"] :
    /\ published["Agent"][j].type = EventDeleted
    /\ published["Agent"][j].resource.state = "Ready"

\* C14: the resources table never holds two rows with the same (kind,
\* namespace, name); it holds a row for a key exactly when the key's row
\* exists, with that row's data; and a List in progress has read one entry for
\* each key of its kind (and namespace) that has a row, none for the others.
C14_OneRowPerKey ==
  /\ \A i, j \in DOMAIN table : RowKey(table[i]) = RowKey(table[j]) => i = j
  /\ \A k \in Keys :
       IF rows[k] = NoRow
         THEN \A i \in DOMAIN table : RowKey(table[i]) # k
         ELSE \E i \in DOMAIN table : RowKey(table[i]) = k /\ table[i].data = rows[k].data
  /\ \A p \in Procs :
       (pc[p] = "readRet" /\ local[p].op = "List") =>
         /\ \A k \in Keys :
              Cardinality({i \in DOMAIN local[p].list : KeyOf(local[p].list[i]) = k})
                = IF rows[k] # NoRow /\ k[1] = local[p].key[1]
                       /\ local[p].key[2] \in {"", k[2]}
                    THEN 1 ELSE 0
         /\ \A i \in DOMAIN local[p].list : KeyOf(local[p].list[i]) \in Keys

C14_Witness ==
  \E p \in Procs :
    /\ pc[p] = "readRet" /\ local[p].op = "List"
    /\ Len(local[p].list) = 1
    /\ Len(table) = 2
    /\ \E i \in DOMAIN table :
         /\ RowKey(table[i]) = AgentKey
         /\ table[i].updated_at >= table[i].created_at + 2

\* What a Get of res's key returns once the row is written.
Stored(rs, res) == getUnlocked(rs, KeyOf(res)).res
\* The steps in which goroutine p's Put of its resource writes the row.
PutCommits(p) == pc[p] = "putLock" /\ pc'[p] = "emit" /\ local[p].op = "Put"

\* C15 as stated: right after a successful Put of R, Get returns R in every
\* field other than uid, createdAt and updatedAt.
C15_RoundTrip ==
  [][\A p \in Procs :
       PutCommits(p) =>
         LET R == local[p].res
             G == Stored(rows', R)
         IN [G EXCEPT !.uid = R.uid, !.createdAt = R.createdAt,
                      !.updatedAt = R.updatedAt] = R]_vars

\* C15 as amended: kind, namespace, name and spec come back as supplied; so
\* do state and health unless the supplied state is empty, when they come
\* back as Registered and Unknown; lastUpdated and updatedAt come back as the
\* time of the write; uid and createdAt come back as supplied unless the
\* supplied uid is empty, when they are a generated uid and the write time.
C15_RoundTripExceptStamps ==
  [][\A p \in Procs :
       PutCommits(p) =>
         LET R == local[p].res
             G == Stored(rows', R)
         IN /\ G.kind = R.kind /\ G.namespace = R.namespace /\ G.name = R.name
            /\ G.spec = R.spec
            /\ IF R.state = ""
                 THEN G.state = "Registered" /\ G.health = "Unknown"
                 ELSE G.state = R.state /\ G.health = R.health
            /\ G.lastUpdated = clock' /\ G.updatedAt = clock' /\ clock' > clock
            /\ IF R.uid = NoUID
                 THEN G.uid.src = "uuid" /\ G.createdAt = clock'
                 ELSE G.uid = R.uid /\ G.createdAt = R.createdAt]_vars

C15_Witness ==
  \E p, q \in Procs :
    /\ pc[p] = "readRet" /\ local[p].op = "List"
    /\ Len(local[p].list) = 1
    /\ local[p].list[1].state = "Registered" /\ local[p].list[1].health = "Unknown"
    /\ local[p].list[1].uid = CallerUID /\ local[p].list[1].lastUpdated = 2
    /\ pc[q] = "putLock" /\ local[q].op = "Put" /\ local[q].res.state = "Ready"

\* C17: UpdateStatus keeps the resource it read, with the new status, while
\* it waits for the lock, whatever is written meanwhile; its write, like any
\* Put's, replaces the stored resource by the one it holds, so it stores the
\* spec it read and the new status over an intervening Put, and a Put that
\* writes later stores its own.
C17_LastWriteWins ==
  [][\A p \in Procs :
       /\ (pc[p] = "idle" /\ pc'[p] = "putLock" /\ local'[p].op = "UpdateStatus") =>
            \E st \in StatusInputs :
              local'[p].res = [Stored(rows, local'[p].res) EXCEPT
                                 !.state = st.state, !.health = st.health]
       /\ (pc[p] = "putLock" /\ pc'[p] = "putLock") => local'[p] = local[p]
       /\ (pc[p] = "putLock" /\ pc'[p] = "emit") =>
            LET R == local[p].res
                G == Stored(rows', R)
            IN /\ G.spec = R.spec
               /\ local[p].op = "UpdateStatus" =>
                    G.state = R.state /\ G.health = R.health
               /\ G.updatedAt = clock']_vars

C17_Witness ==
  \E p \in Procs : \E n \in DOMAIN committed["Agent"] :
    /\ pc[p] = "emit" /\ local[p].op = "UpdateStatus"
    /\ n = Len(committed["Agent"]) /\ n >= 3
    /\ Unmarshal(committed["Agent"][n - 2].data).spec = "s1"
    /\ Unmarshal(committed["Agent"][n - 1].data).spec = "s2"
    /\ Unmarshal(committed["Agent"][n - 1].data).state = "Registered"
    /\ Stored(rows, local[p].res).spec = "s1"
    /\ Stored(rows, local[p].res).state = "Ready"

\* The goroutines inside the named operation, between its lock and its return.
Inside(op) == {p \in Procs : pc[p] \in {"unlock", "readRet"} /\ local[p].op = op}
\* Two records agree in every field, a checkpoint field by its bytes.
ExecEqual(e, f) ==
  /\ [e EXCEPT !.checkpoint = NilBytes] = [f EXCEPT !.checkpoint = NilBytes]
  /\ e.checkpoint.b = f.checkpoint.b

\* C11: a LoadCheckpoint of a created execution returns no error, and the
\* bytes of the last successful SaveCheckpoint made since the execution has
\* its row; with no such save it returns nil, the absent result, and with a
\* save of a checkpoint of length 0 it returns something other than that.
C11_CheckpointRoundTrip ==
  \A p \in Inside("LoadCheckpoint") :
    LET id == local[p].id
    IN execs[id] # NoExec =>
         /\ local[p].err = ""
         /\ IF saved[id].some /\ saved[id].hadRow
              THEN /\ local[p].blob.b = saved[id].b.b
                   /\ Len(saved[id].b.b) = 0 => local[p].blob # NilBytes
              ELSE local[p].blob = NilBytes

\* C12: when UpdateExecution has returned success for a record, the
\* execution's row exists and GetExecution returns a record equal to it.
C12_UpdateThenGet ==
  \A p \in Inside("UpdateExecution") :
    local[p].err = "" =>
      /\ GetExecutionQuery(execs, local[p].id).err = ""
      /\ ExecEqual(GetExecutionQuery(execs, local[p].id).exec, local[p].exec)

\* C16: a SaveCheckpoint changes the result of GetExecution for no id, and an
\* UpdateExecution changes the result of LoadCheckpoint for no id.
C16_RecordAndCheckpointApart ==
  [][\A p \in Procs :
       /\ (pc[p] = "idle" /\ pc'[p] = "unlock" /\ local'[p].op = "SaveCheckpoint") =>
            \A id \in ExecIDs : GetExecutionQuery(execs', id) = GetExecutionQuery(execs, id)
       /\ (pc[p] = "idle" /\ pc'[p] = "unlock" /\ local'[p].op = "UpdateExecution") =>
            \A id \in ExecIDs : LoadResult(execs', id) = LoadResult(execs, id)]_vars

C16_Witness ==
  \E p \in Inside("GetExecution") :
    /\ local[p].id = "e1" /\ local[p].err = ""
    /\ local[p].exec.state = "Retrying" /\ local[p].exec.retryCount = 1
    /\ LoadResult(execs, "e1").blob = Bytes(<<1, 2>>)
    /\ execs["e1"].updated_at > local[p].exec.updatedAt

CreatedIn(namespace) ==
  LET Here(c) == c.namespace = namespace IN SelectSeq(created, Here)

\* C13: ListExecutions(X, k) of a namespace X in which n executions were
\* created returns min(k, n) records when k > 0 and n records when k <= 0,
\* and they are the most recently created executions of X, newest first,
\* whatever UpdateExecution and SaveCheckpoint calls were made since.
C13_NewestFirst ==
  \A p \in Inside("ListExecutions") :
    LET mine == CreatedIn(local[p].key[2])
        n == Len(mine)
        k == local[p].limit
        want == IF k > 0 /\ k < n THEN k ELSE n
    IN /\ local[p].err = ""
       /\ Len(local[p].list) = want
       /\ \A i \in 1..want : local[p].list[i].id = mine[n + 1 - i].id

C13_Witness ==
  \E p \in Inside("ListExecutions") :
    /\ local[p].key[2] = "default" /\ local[p].limit = 1
    /\ Len(CreatedIn("default")) = 2
    /\ CreatedIn("default")[1].id = "e1"
    /\ execs["e1"].updated_at > execs["e2"].updated_at
    /\ Len(local[p].list) = 1 /\ local[p].list[1].id = "e2"

\* The goroutines inside the critical section of a mutating operation, from
\* its s.mu.Lock() to its deferred s.mu.Unlock(), and those inside a read,
\* from its s.mu.RLock() to its deferred s.mu.RUnlock().
Mutating == {p \in Procs : pc[p] \in {"emit", "unlock"}}
Reading == {p \in Procs : pc[p] \in {"getRet", "readRet"}}

\* C18: at most one mutating operation is inside its critical section, and
\* none while a read is inside its own; the one inside holds s.mu; and a Put
\* or Delete that is about to release s.mu with success has already handed
\* its event to emit, which put it on every channel registered before.
C18_MutualExclusion ==
  /\ Cardinality(Mutating) <= 1
  /\ Mutating # {} => Reading = {}
  /\ \A p \in Mutating : mu.writer = p
  /\ \A p \in Procs :
       (pc[p] = "unlock" /\ local[p].op \in {"Put", "Delete"} /\ local[p].err = "") =>
         LET k == local[p].key[1]
         IN /\ published[k] # <<>>
            /\ published[k][Len(published[k])] = local[p].evt
            /\ \A i \in DOMAIN watchers[k] :
                 regAt[k][i].pub < Len(published[k]) =>
                   /\ watchers[k][i] # <<>>
                   /\ watchers[k][i][Len(watchers[k][i])] = local[p].evt

C18_Witness ==
  \E p, q \in Procs :
    /\ pc[p] = "unlock" /\ local[p].op = "Delete" /\ local[p].err = ""
    /\ watchers["Agent"] # <<>> /\ Len(watchers["Agent"][1]) = 2
    /\ pc[q] = "putLock"
    /\ logs # <<>>

\* C19: a Snapshot call returns, and once it has returned the registry lock
\* is free: no Snapshot stops the process, and no goroutine that is not
\* inside a registry call holds r.mu.
C19_SnapshotReleasesLock ==
  /\ ~crashed
  /\ \A p \in Procs : pc[p] = "idle" => regMu.writer # p /\ p \notin regMu.readers

====
